---- MODULE Spec2Model ----
(***************************************************************************)
(* Mastermind: the scoring of a guess against a secret code                *)
(* (Scorer::score) and the turn loop (Game::play) of src/src/lib.rs.       *)
(*                                                                         *)
(* Two specifications share the variables:                                 *)
(*   ScorerSpec  Scorer::new on any Code, then Scorer::score on any Code   *)
(*               (the whole 6-colour, length-4 input space);               *)
(*   Spec        Game::new and Game::play against a code maker and a code  *)
(*               breaker that answer with any code of GameCodes; every     *)
(*               call play() makes on them is appended to `calls`.         *)
(***************************************************************************)
EXTENDS Integers, Sequences, FiniteSets, TLC

VARIABLES
    pc,            \* position of the running operation
    scorer,        \* Scorer.code: the secret the Scorer was built with
    guess,         \* the guess handed to Scorer::score
    score,         \* the Score that Scorer::score returned
    feedback_for,  \* history: the guess peg of each Present pushed by score
    max_round,     \* Game.max_round
    round,         \* number of completed iterations of the loop of play()
    calls          \* history: the calls made on code_maker and code_breaker

vars == <<pc, scorer, guess, score, feedback_for, max_round, round, calls>>

(***************************************************************************)
(* Data model                                                              *)
(***************************************************************************)
SIZE == 4

CodePeg == {"A", "B", "C", "D", "E", "F"}

Code == [1..SIZE -> CodePeg]

Match == "Match"
Present == "Present"
ScorePeg == {Match, Present}

\* Option<ScorePeg>::None
None == "None"

\* Score::new([Some(ScorePeg::Match); SIZE])
AllMatch == [i \in 1..SIZE |-> Match]

\* No code / no score yet (a variable that holds nothing)
Nil == <<>>

(***************************************************************************)
(* Scorer::score                                                           *)
(***************************************************************************)

\* The three vectors at the start of score, and the history of the guess
\* pegs that produced a Present.
ScoreStart ==
    [score_accumulator |-> <<>>,
     score_peg_not_matched |-> <<>>,
     guess_peg_not_matched |-> <<>>,
     feedback_for |-> <<>>]

\* A first pass that records a Match only when the previous position
\* matched too (an off-by-one in the indices compared).
MatchStepShifted(code, g, i, st) ==
    IF code[i] = g[IF i = 1 THEN 1 ELSE i - 1]
    THEN [st EXCEPT !.score_accumulator = Append(@, Match)]
    ELSE [st EXCEPT !.score_peg_not_matched = Append(@, code[i]),
                    !.guess_peg_not_matched = Append(@, g[i])]

\* One iteration of the first loop: position i (1-based here).
MatchStep(code, g, i, st) ==
    IF code[i] = g[i]
    THEN [st EXCEPT !.score_accumulator = Append(@, Match)]
    ELSE [st EXCEPT !.score_peg_not_matched = Append(@, code[i]),
                    !.guess_peg_not_matched = Append(@, g[i])]

RECURSIVE MatchLoop(_, _, _, _)
MatchLoop(code, g, i, st) ==
    IF i > SIZE THEN st
    ELSE MatchLoop(code, g, i + 1, MatchStep(code, g, i, st))

\* iter().position(|&item| item == peg): the first index holding peg,
\* 0 for Option::None.
Position(seq, peg) ==
    IF \E i \in 1..Len(seq) : seq[i] = peg
    THEN CHOOSE i \in 1..Len(seq) :
            /\ seq[i] = peg
            /\ \A j \in 1..(i - 1) : seq[j] # peg
    ELSE 0

\* Vec::remove(i): the elements after i shift down.
Remove(seq, i) ==
    [j \in 1..(Len(seq) - 1) |-> IF j < i THEN seq[j] ELSE seq[j + 1]]

\* A second pass that forgets to remove the secret peg it matched.
PresentStepNoRemove(peg, st) ==
    LET index == Position(st.score_peg_not_matched, peg) IN
    IF index # 0
    THEN [st EXCEPT !.score_accumulator = Append(@, Present),
                    !.feedback_for = Append(@, peg)]
    ELSE st

\* A second pass that removes the first unmatched secret peg instead of the
\* one it found.
PresentStepRemoveFirst(peg, st) ==
    LET index == Position(st.score_peg_not_matched, peg) IN
    IF index # 0
    THEN [st EXCEPT !.score_accumulator = Append(@, Present),
                    !.score_peg_not_matched = Remove(@, 1),
                    !.feedback_for = Append(@, peg)]
    ELSE st

\* A second pass that pushes the wrong ScorePeg variant.
PresentStepPushMatch(peg, st) ==
    LET index == Position(st.score_peg_not_matched, peg) IN
    IF index # 0
    THEN [st EXCEPT !.score_accumulator = Append(@, Match),
                    !.score_peg_not_matched = Remove(@, index),
                    !.feedback_for = Append(@, peg)]
    ELSE st

\* One iteration of the second loop, for guess peg `peg`.
PresentStep(peg, st) ==
    LET index == Position(st.score_peg_not_matched, peg) IN
    IF index # 0
    THEN [st EXCEPT !.score_accumulator = Append(@, Present),
                    !.score_peg_not_matched = Remove(@, index),
                    !.feedback_for = Append(@, peg)]
    ELSE st

RECURSIVE PresentLoop(_, _)
PresentLoop(k, st) ==
    IF k > Len(st.guess_peg_not_matched) THEN st
    ELSE PresentLoop(k + 1, PresentStep(st.guess_peg_not_matched[k], st))

\* A packing that fills the slots from the last one down.
PackFromEnd(score_accumulator) ==
    [i \in 1..SIZE |->
        IF SIZE + 1 - i <= Len(score_accumulator)
        THEN score_accumulator[SIZE + 1 - i] ELSE None]

\* The last loop: the accumulator copied into a [None; SIZE] array.
Pack(score_accumulator) ==
    [i \in 1..SIZE |->
        IF i <= Len(score_accumulator) THEN score_accumulator[i] ELSE None]

\* The state of score after its two loops.
ScoreRun(code, g) == PresentLoop(1, MatchLoop(code, g, 1, ScoreStart))

\* Scorer::score, with self.code = code.
Scorer_score(code, g) == Pack(ScoreRun(code, g).score_accumulator)

(***************************************************************************)
(* ScorerSpec: Scorer::new, then Scorer::score, on every pair of codes     *)
(***************************************************************************)
ScorerInit ==
    /\ pc = "scorer_init"
    /\ scorer = Nil
    /\ guess = Nil
    /\ score = Nil
    /\ feedback_for = Nil
    /\ max_round = 0
    /\ round = 0
    /\ calls = <<>>

\* Scorer::new(code)
ScorerNew ==
    /\ pc = "scorer_init"
    /\ \E code \in Code : scorer' = code
    /\ pc' = "scorer_new"
    /\ UNCHANGED <<guess, score, feedback_for, max_round, round, calls>>

\* scorer.score(guess)
CallScore ==
    /\ pc = "scorer_new"
    /\ \E g \in Code :
          LET run == ScoreRun(scorer, g) IN
          /\ guess' = g
          /\ score' = Pack(run.score_accumulator)
          /\ feedback_for' = run.feedback_for
    /\ pc' = "scored"
    /\ UNCHANGED <<scorer, max_round, round, calls>>

ScorerNext == ScorerNew \/ CallScore

ScorerSpec == ScorerInit /\ [][ScorerNext]_vars

(***************************************************************************)
(* Spec: Game::new, then Game::play                                        *)
(***************************************************************************)

\* Largest round budget handed to Game::new.
MaxRound == 4

\* The codes the code maker and the code breaker answer with: the three
\* codes of test_game, and a rearrangement of the first of them.
GameCodes ==
    {<<"B", "B", "A", "E">>, <<"A", "E", "F", "C">>,
     <<"B", "B", "F", "D">>, <<"E", "B", "A", "B">>}

\* One call on a collaborator: CodeMaker::make_code (arg: the code it
\* returned), CodeBreaker::guess_code (arg: the code it returned),
\* CodeBreaker::set_score (arg: the score passed), CodeBreaker::loses.
Call(op, arg) == [op |-> op, arg |-> arg]

Init ==
    /\ pc = "init"
    /\ scorer = Nil
    /\ guess = Nil
    /\ score = Nil
    /\ feedback_for = Nil
    /\ max_round = 0
    /\ round = 0
    /\ calls = <<>>

\* Game::new(max_round, code_maker, code_breaker): any usize is stored.
GameNew ==
    /\ pc = "init"
    /\ \E r \in 0..MaxRound : max_round' = r
    /\ pc' = "new"
    /\ UNCHANGED <<scorer, guess, score, feedback_for, round, calls>>

\* play(): let scorer = Scorer::new(self.code_maker.make_code());
PlayMakeCode ==
    /\ pc = "new"
    /\ \E code \in GameCodes :
          /\ scorer' = code
          /\ calls' = Append(calls, Call("make_code", code))
    /\ round' = 0
    /\ pc' = "loop"
    /\ UNCHANGED <<guess, score, feedback_for, max_round>>

\* A loop over 0..=max_round.
InRangeInclusive(r, max) == r <= max

\* A loop whose body runs before the budget is first tested.
InRangeAtLeastOnce(r, max) == r < max \/ r = 0

\* for _round in 0..self.max_round: whether the loop has an iteration left
\* after r iterations.
InRange(r, max) == r < max

\* A loop body that builds its Scorer from a fresh make_code every round.
PlayGuessCodeFreshSecret ==
    /\ pc = "loop"
    /\ InRange(round, max_round)
    /\ \E code \in GameCodes, g \in GameCodes :
          /\ scorer' = code
          /\ guess' = g
          /\ score' = Scorer_score(code, g)
          /\ calls' = calls \o <<Call("make_code", code), Call("guess_code", g)>>
    /\ pc' = "set_score"
    /\ UNCHANGED <<feedback_for, max_round, round>>

\* play(): let score = scorer.score(self.code_breaker.guess_code());
PlayGuessCode ==
    /\ pc = "loop"
    /\ InRange(round, max_round)
    /\ \E g \in GameCodes :
          /\ guess' = g
          /\ score' = Scorer_score(scorer, g)
          /\ calls' = Append(calls, Call("guess_code", g))
    /\ pc' = "set_score"
    /\ UNCHANGED <<scorer, feedback_for, max_round, round>>

\* A loop body that goes on to the next round after a winning score.
PlaySetScoreNoReturn ==
    /\ pc = "set_score"
    /\ calls' = Append(calls, Call("set_score", score))
    /\ round' = round + 1
    /\ pc' = "loop"
    /\ UNCHANGED <<scorer, guess, score, feedback_for, max_round>>

\* A loop body that returns on a winning score before delivering it.
PlaySetScoreSkipOnWin ==
    /\ pc = "set_score"
    /\ IF score = AllMatch
       THEN /\ pc' = "returned"
            /\ UNCHANGED <<round, calls>>
       ELSE /\ calls' = Append(calls, Call("set_score", score))
            /\ round' = round + 1
            /\ pc' = "loop"
    /\ UNCHANGED <<scorer, guess, score, feedback_for, max_round>>

\* play(): self.code_breaker.set_score(score); return on the all-Match
\* score, else on to the next round.
PlaySetScore ==
    /\ pc = "set_score"
    /\ calls' = Append(calls, Call("set_score", score))
    /\ IF score = AllMatch
       THEN /\ pc' = "returned"
            /\ round' = round
       ELSE /\ round' = round + 1
            /\ pc' = "loop"
    /\ UNCHANGED <<scorer, guess, score, feedback_for, max_round>>

\* play(): the loop is over: self.code_breaker.loses();
PlayLoses ==
    /\ pc = "loop"
    /\ ~InRange(round, max_round)
    /\ calls' = Append(calls, Call("loses", Nil))
    /\ pc' = "returned"
    /\ UNCHANGED <<scorer, guess, score, feedback_for, max_round, round>>

Next == GameNew \/ PlayMakeCode \/ PlayGuessCode \/ PlaySetScore \/ PlayLoses

Spec == Init /\ [][Next]_vars

(***************************************************************************)
(* Properties of Scorer::score (checked under ScorerSpec)                  *)
(***************************************************************************)
Min(a, b) == IF a < b THEN a ELSE b

\* Number of slots (or elements) of sequence s that hold x.
Count(s, x) == Cardinality({i \in DOMAIN s : s[i] = x})

\* Positions where two codes agree.
Agree(code, g) == {i \in 1..SIZE : code[i] = g[i]}

Scored == pc = "scored"

\* C1: the number of Match pegs of score(S, G) is the number of positions
\* where S and G hold the same colour.
MatchCountIsAgreement ==
    Scored => Count(score, Match) = Cardinality(Agree(scorer, guess))

MatchCountWitness ==
    /\ Scored
    /\ Cardinality(Agree(scorer, guess)) = 2
    /\ Count(score, Match) = 2
    /\ Count(score, Present) = 1

\* C2: for every colour c occurring m times in S and n times in G, the
\* Present pegs produced for guess pegs of colour c number min(m, n) minus
\* the positions where S and G both hold c; the Present pegs of the score
\* are exactly those; and a colour occurring once in the secret gets at most
\* one feedback peg (Match or Present) however often the guess repeats it.
PresentPerColour ==
    Scored =>
        /\ Len(feedback_for) = Count(score, Present)
        /\ \A c \in CodePeg :
              LET m == Count(scorer, c)
                  n == Count(guess, c)
                  e == Cardinality({i \in Agree(scorer, guess) : guess[i] = c})
              IN  /\ Count(feedback_for, c) = Min(m, n) - e
                  /\ (m = 1 /\ n >= 2) => Count(feedback_for, c) + e <= 1

PresentPerColourWitness ==
    /\ Scored
    /\ \E c \in CodePeg :
          /\ Count(scorer, c) = 1
          /\ Count(guess, c) = 2
          /\ \A i \in Agree(scorer, guess) : guess[i] # c
          /\ Count(feedback_for, c) = 1
    /\ \E d \in CodePeg :
          /\ Count(scorer, d) = 2
          /\ Count(guess, d) = 1
          /\ \E i \in Agree(scorer, guess) : guess[i] = d

\* C3: a score holds at most SIZE feedback pegs, and scoring G against S
\* gives as many Match pegs and as many Present pegs as scoring S against G.
ScoreBoundedAndSymmetric ==
    Scored =>
        LET back == Scorer_score(guess, scorer) IN
        /\ Count(score, Match) + Count(score, Present) <= SIZE
        /\ Count(back, Match) = Count(score, Match)
        /\ Count(back, Present) = Count(score, Present)

ScoreSymmetricWitness ==
    /\ Scored
    /\ Count(score, Match) = 1
    /\ Count(score, Present) = 2
    /\ Count(scorer, "A") = 2
    /\ Count(guess, "A") = 3

\* C4: the score is the all-Match score exactly when the guess equals the
\* secret, and then it holds no Present peg.
AllMatchIffEqual ==
    Scored =>
        /\ (score = AllMatch) <=> (guess = scorer)
        /\ (guess = scorer) => Count(score, Present) = 0

AllMatchWitness ==
    /\ Scored
    /\ guess = scorer
    /\ score = AllMatch

\* C5: with N the number of Match and Present pegs, slots 1..N of the score
\* are filled, Match pegs before Present pegs, and the other slots are None.
ScorePacked ==
    Scored =>
        LET nm == Count(score, Match)
            np == Count(score, Present)
        IN  /\ \A i \in 1..SIZE :
                  score[i] = (IF i <= nm THEN Match
                              ELSE IF i <= nm + np THEN Present ELSE None)
            /\ DOMAIN score = 1..SIZE

ScorePackedWitness ==
    /\ Scored
    /\ score = <<Match, Present, None, None>>
    /\ scorer[1] # guess[1]

(***************************************************************************)
(* Properties of Game::play (checked under Spec)                           *)
(***************************************************************************)
Returned == pc = "returned"

\* The positions of `calls` holding a call of op.
CallsOf(op) == {i \in DOMAIN calls : calls[i].op = op}

NumCalls(op) == Cardinality(CallsOf(op))

\* The secret: what make_code returned.
Secret == calls[1].arg

\* The guess_code calls that returned the secret.
Hits == {i \in CallsOf("guess_code") : calls[i].arg = Secret}

\* The first guess_code call that returned the secret is the k-th one.
FirstHitRank ==
    LET first == CHOOSE i \in Hits : \A j \in Hits : i <= j
    IN  Cardinality({j \in CallsOf("guess_code") : j <= first})

\* C6: when play() has returned from a game of budget R >= 1 in which no
\* guess was the secret, it has made exactly R set_score calls and then
\* exactly one loses call, the last call of all.
LossAfterBudget ==
    (Returned /\ max_round >= 1 /\ Hits = {}) =>
        /\ NumCalls("set_score") = max_round
        /\ NumCalls("loses") = 1
        /\ calls[Len(calls)].op = "loses"
        /\ \A i \in CallsOf("set_score") : i < Len(calls)

LossWitness ==
    /\ Returned
    /\ max_round = MaxRound
    /\ Hits = {}
    /\ NumCalls("set_score") = MaxRound
    /\ calls[Len(calls)].op = "loses"

\* C7: once a guess equals the secret (the k-th guess, the earlier ones
\* differing), play() is delivering its score or has returned; when it has
\* returned it has made exactly k set_score calls, k <= R, the last one with
\* the all-Match score, and no loses call; and an all-Match set_score call is
\* always the last call made.
WinAtFirstHit ==
    /\ \A i \in CallsOf("set_score") :
          calls[i].arg = AllMatch => (i = Len(calls) /\ Returned)
    /\ Hits # {} =>
          /\ pc \in {"set_score", "returned"}
          /\ Returned =>
                /\ NumCalls("set_score") = FirstHitRank
                /\ FirstHitRank <= max_round
                /\ calls[Len(calls)] = Call("set_score", AllMatch)
                /\ NumCalls("loses") = 0

WinWitness ==
    /\ Returned
    /\ max_round = MaxRound
    /\ Hits # {}
    /\ FirstHitRank = MaxRound
    /\ calls[Len(calls)] = Call("set_score", AllMatch)

\* C8: play() calls make_code exactly once, as its first call (so before any
\* guess_code), and every score it delivers is the score of the guess just
\* made against the code make_code returned.
MakeCodeOnceFirst ==
    /\ pc \in {"init", "new"} => calls = <<>>
    /\ pc \notin {"init", "new"} =>
          /\ CallsOf("make_code") = {1}
          /\ scorer = Secret
    /\ \A i \in CallsOf("set_score") :
          /\ i > 2
          /\ calls[i - 1].op = "guess_code"
          /\ calls[i].arg = Scorer_score(Secret, calls[i - 1].arg)

MakeCodeWitness ==
    /\ Returned
    /\ NumCalls("guess_code") = 2
    /\ NumCalls("set_score") = 2
    /\ calls[3].arg = <<Match, Match, Present, Present>>
    /\ calls[5].arg = AllMatch

\* C9: after make_code the calls alternate guess_code, set_score, ...: every
\* guess_code is followed at once by the set_score of its score (or play()
\* is about to make that call), every set_score follows a guess_code, also
\* on the winning round, and neither is made more often than the budget.
GuessThenScore ==
    /\ \A i \in CallsOf("guess_code") :
          IF i = Len(calls)
          THEN pc = "set_score"
          ELSE calls[i + 1] =
                  Call("set_score", Scorer_score(Secret, calls[i].arg))
    /\ \A i \in CallsOf("set_score") :
          i > 1 /\ calls[i - 1].op = "guess_code"
    /\ \A i \in 2..Len(calls) :
          calls[i].op \in {"guess_code", "set_score"} =>
              calls[i].op = (IF i % 2 = 0 THEN "guess_code" ELSE "set_score")
    /\ NumCalls("set_score") <= max_round
    /\ NumCalls("guess_code") <= max_round
    /\ Returned => NumCalls("guess_code") = NumCalls("set_score")

GuessThenScoreWitness ==
    /\ Returned
    /\ max_round = MaxRound
    /\ NumCalls("guess_code") = 2
    /\ calls[4].op = "guess_code"
    /\ calls[5] = Call("set_score", AllMatch)

\* C10: a game of budget 0 makes no guess_code and no set_score call, and
\* when play() has returned it has called make_code once and then loses
\* once, and nothing else.
ZeroBudgetLoses ==
    (max_round = 0 /\ pc # "init") =>
        /\ NumCalls("guess_code") = 0
        /\ NumCalls("set_score") = 0
        /\ Returned =>
              /\ Len(calls) = 2
              /\ calls[1].op = "make_code"
              /\ calls[2] = Call("loses", Nil)

ZeroBudgetWitness ==
    /\ Returned
    /\ max_round = 0
    /\ NumCalls("make_code") = 1
    /\ NumCalls("loses") = 1
    /\ round = 0

====
